---------------------------- MODULE Spec2Model ----------------------------
(***************************************************************************)
(* A model of src/07_ModernConvolutionalNeuralNetworks/DensNet.cpp.        *)
(*                                                                         *)
(* Tensors are modelled by their shapes, layers by the parameters they    *)
(* are constructed with, and a forward pass by the shape it produces or    *)
(* the error the tensor library raises.  Real-valued data (weights,        *)
(* losses, pixel values) is abstracted: the weights by a version number    *)
(* that every optimizer step advances, an arg-max by a class index.        *)
(*                                                                         *)
(* Five programs are modelled, each with its own specification:            *)
(*   DenseSpec  a DenseBlock constructed and applied to one tensor         *)
(*   TransSpec  a transition_block constructed and applied to one tensor   *)
(*   NetSpec    DensNetImpl constructed and applied to one tensor          *)
(*   NamesSpec  one call of Set_Class_Names                                *)
(*   TrainSpec  main from the epoch loop to its return                     *)
(***************************************************************************)
EXTENDS Integers, Sequences, FiniteSets, TLC

VARIABLES
    pc,             \* position of the modelled program
    \* ---- network construction and forward pass
    args,           \* constructor arguments / member defaults in force
    mods,           \* the Sequential under construction (features, or a block's own list)
    num_channels,   \* DensNetImpl::num_channels
    blk,            \* loop index i of DensNetImpl's constructor (1-based)
    classifier,     \* DensNetImpl::classifier
    training,       \* Module::is_training()
    X,              \* the tensor given to forward
    cur,            \* the tensor between two modules of the Sequential
    fpos,           \* index of the next module forward will call
    \* ---- Set_Class_Names
    file,           \* the class-name file: [ok |-> FALSE] or [ok |-> TRUE, lines |-> ...]
    class_num,      \* class_num (also main's class_num)
    class_names,    \* the vector being filled
    i,              \* Set_Class_Names' counter i
    rd,             \* number of lines getline has delivered
    outcome,        \* how the call ended
    \* ---- main: epoch loop, test, report
    loaders,        \* mini-batches per pass of the three loaders
    epoch,          \* epoch
    lpos,           \* mini-batches the running pass has taken from its loader
    mode,           \* "train" or "eval": net->train() / net->eval()
    weights,        \* version of the weight tensors
    opt_steps,      \* calls of optimizer.step()
    iters,          \* training mini-batches consumed
    trace,          \* the passes completed, in order
    vtally,         \* validation: [total_counter, total_match]
    counter,        \* test: counter
    match,          \* test: match
    class_counter,  \* test: class_counter
    class_match,    \* test: class_match
    last,           \* test: the sample just processed
    class_accuracy, \* report: class_accuracy
    accuracy,       \* report: accuracy
    exit_code       \* process exit status, Running while there is none

netVars   == <<args, mods, num_channels, blk, classifier, training, X, cur, fpos>>
nameVars  == <<file, class_names, i, rd, outcome>>
trainVars == <<loaders, epoch, lpos, mode, weights, opt_steps, iters, trace, vtally,
               counter, match, class_counter, class_match, last, class_accuracy,
               accuracy, exit_code>>
vars      == <<pc, netVars, nameVars, class_num, trainVars>>

-----------------------------------------------------------------------------
(* Bounds of the model. *)

MaxConvs == 3
MaxChan == 3
MaxGrowth == 2
MaxBatch == 2
MaxHW == 3
MaxClasses == 2
MaxLines == 3
MaxBatches == 2
MaxTest == 2

(* Program constants. *)

ImgSize == 224
StemChannels == 64
DefaultGrowth == 32
DefaultConvs == 4
MainClasses == 17
total_epoch == 20

\* the value of exit_code while the process has not exited; <<n>> after exit(n)
Running == <<>>

-----------------------------------------------------------------------------
(* Tensor shapes.  A forward pass that the library rejects yields ShapeError *)
(* (the library throws c10::Error; nothing in the file catches it).          *)

ShapeError == [kind |-> "error"]

T4(n, c, h, w) == [kind |-> "t4", n |-> n, c |-> c, h |-> h, w |-> w]

T2(n, f) == [kind |-> "t2", n |-> n, f |-> f]

IsT4(x) == x.kind = "t4"

(* Layers, by the options they are constructed with. *)

Conv2d(cin, cout, k, s, p) ==
    [kind |-> "Conv2d", cin |-> cin, cout |-> cout, k |-> k, s |-> s, p |-> p]

BatchNorm2d(c) == [kind |-> "BatchNorm2d", c |-> c]

ReLU == [kind |-> "ReLU"]

MaxPool2d(k, s, p) == [kind |-> "max_pool2d", k |-> k, s |-> s, p |-> p]

AvgPool2d(k, s) == [kind |-> "AvgPool2d", k |-> k, s |-> s]

Linear(fin, fout) == [kind |-> "Linear", fin |-> fin, fout |-> fout]

(* One spatial extent after a sliding window of size k, stride s, padding p *)
(* (floor division, ceil_mode off, dilation 1).                             *)
WindowOut(h, k, s, p) == ((h + 2 * p - k) \div s) + 1

Conv2dForward(l, x) ==
    IF ~IsT4(x) \/ x.c # l.cin \/ x.h + 2 * l.p < l.k \/ x.w + 2 * l.p < l.k
    THEN ShapeError
    ELSE T4(x.n, l.cout, WindowOut(x.h, l.k, l.s, l.p), WindowOut(x.w, l.k, l.s, l.p))

(* In training mode batch norm needs more than one value per channel. *)
BatchNorm2dForward(l, x, tr) ==
    IF ~IsT4(x) \/ x.c # l.c \/ (tr /\ x.n * x.h * x.w = 1)
    THEN ShapeError
    ELSE x

PoolForward(l, x, p) ==
    IF ~IsT4(x) \/ WindowOut(x.h, l.k, l.s, p) < 1 \/ WindowOut(x.w, l.k, l.s, p) < 1
    THEN ShapeError
    ELSE T4(x.n, x.c, WindowOut(x.h, l.k, l.s, p), WindowOut(x.w, l.k, l.s, p))

LinearForward(l, x) ==
    IF x.kind # "t2" \/ x.f # l.fin THEN ShapeError ELSE T2(x.n, l.fout)

(* torch::cat({x, Y}, 1): every extent but the channels must agree. *)
Cat1(x, y) ==
    IF ~IsT4(x) \/ ~IsT4(y) \/ x.n # y.n \/ x.h # y.h \/ x.w # y.w
    THEN ShapeError
    ELSE T4(x.n, x.c + y.c, x.h, x.w)

-----------------------------------------------------------------------------
(* The blocks of the file. *)

\* variant: the 3x3 convolution without its padding
conv_block_plain(input_channels, growth) ==
    [kind |-> "conv_block",
     mods |-> <<BatchNorm2d(input_channels), ReLU,
                Conv2d(input_channels, growth, 3, 1, 0)>>]

\* conv_block::conv_block
conv_block(input_channels, growth) ==
    [kind |-> "conv_block",
     mods |-> <<BatchNorm2d(input_channels), ReLU,
                Conv2d(input_channels, growth, 3, 1, 1)>>]

\* variant: every conv_block built for input_channels, ignoring the growth
DenseBlock_same_width(num_convs, input_channels, growth) ==
    [kind |-> "DenseBlock",
     mods |-> [j \in 1..num_convs |-> conv_block(input_channels, growth)]]

\* DenseBlock::DenseBlock; j - 1 is the loop's i
DenseBlock(num_convs, input_channels, growth) ==
    [kind |-> "DenseBlock",
     mods |-> [j \in 1..num_convs |->
                  conv_block(growth * (j - 1) + input_channels, growth)]]

\* variant: the transition without its average pooling
transition_block_no_pool(input_channels, out_channels) ==
    [kind |-> "transition_block",
     mods |-> <<BatchNorm2d(input_channels), ReLU,
                Conv2d(input_channels, out_channels, 1, 1, 0)>>]

\* transition_block::transition_block
transition_block(input_channels, out_channels) ==
    [kind |-> "transition_block",
     mods |-> <<BatchNorm2d(input_channels), ReLU,
                Conv2d(input_channels, out_channels, 1, 1, 0),
                AvgPool2d(2, 2)>>]

(* static_cast<int64_t>(c / 2.0): the double quotient truncated toward zero. *)
HalveTrunc(c) == IF c >= 0 THEN c \div 2 ELSE -((-c) \div 2)

RECURSIVE Forward(_, _, _)
RECURSIVE SequentialForward(_, _, _)
RECURSIVE SeqFold(_, _, _)

(* SequentialImpl::forward: an empty Sequential cannot be called; otherwise *)
(* the modules are applied in order.                                        *)
SequentialForward(ms, x, tr) ==
    IF Len(ms) = 0 THEN ShapeError ELSE SeqFold(ms, x, tr)

SeqFold(ms, x, tr) ==
    IF Len(ms) = 0 THEN x ELSE SeqFold(Tail(ms), Forward(Head(ms), x, tr), tr)

(* forward of one module of a Sequential. *)
Forward(l, x, tr) ==
    IF x.kind = "error" THEN ShapeError
    ELSE CASE l.kind = "Conv2d"           -> Conv2dForward(l, x)
           [] l.kind = "BatchNorm2d"      -> BatchNorm2dForward(l, x, tr)
           [] l.kind = "ReLU"             -> x
           [] l.kind = "max_pool2d"       -> PoolForward(l, x, l.p)
           [] l.kind = "AvgPool2d"        -> PoolForward(l, x, 0)
           [] l.kind = "conv_block"       -> Cat1(x, SequentialForward(l.mods, x, tr))
           [] l.kind = "DenseBlock"       -> SequentialForward(l.mods, x, tr)
           [] l.kind = "transition_block" -> SequentialForward(l.mods, x, tr)

RECURSIVE InChannels(_)
(* The channel count a module was constructed to take: 0 when it takes any. *)
InChannels(l) ==
    CASE l.kind = "Conv2d"      -> l.cin
      [] l.kind = "BatchNorm2d" -> l.c
      [] l.kind \in {"conv_block", "DenseBlock", "transition_block"} ->
            IF Len(l.mods) = 0 THEN 0 ELSE InChannels(l.mods[1])
      [] OTHER -> 0

RECURSIVE OutChannels(_, _)
RECURSIVE SeqOutChannels(_, _)
(* The channel count a module emits when given cin channels. *)
OutChannels(l, cin) ==
    CASE l.kind = "Conv2d"     -> l.cout
      [] l.kind = "conv_block" -> cin + SeqOutChannels(l.mods, cin)
      [] l.kind \in {"DenseBlock", "transition_block"} -> SeqOutChannels(l.mods, cin)
      [] OTHER -> cin

SeqOutChannels(ms, cin) ==
    IF Len(ms) = 0 THEN cin ELSE SeqOutChannels(Tail(ms), OutChannels(Head(ms), cin))

-----------------------------------------------------------------------------
(* Values of the variables a specification does not use. *)

NamesIdle ==
    /\ file = [ok |-> FALSE]
    /\ class_names = <<>>
    /\ i = 0
    /\ rd = 0
    /\ outcome = "none"

TrainIdle ==
    /\ loaders = [train |-> 0, valid |-> 0, test |-> 0]
    /\ epoch = 0
    /\ lpos = 0
    /\ mode = "train"
    /\ weights = 0
    /\ opt_steps = 0
    /\ iters = 0
    /\ trace = <<>>
    /\ vtally = [total_counter |-> 0, total_match |-> 0]
    /\ counter = 0
    /\ match = 0
    /\ class_counter = <<>>
    /\ class_match = <<>>
    /\ last = [seen |-> FALSE]
    /\ class_accuracy = <<>>
    /\ accuracy = [kind |-> "unset"]
    /\ exit_code = Running

NetIdle ==
    /\ args = [unit |-> "none"]
    /\ mods = <<>>
    /\ num_channels = 0
    /\ blk = 0
    /\ classifier = [kind |-> "nullptr"]
    /\ training = TRUE
    /\ X = ShapeError
    /\ cur = ShapeError
    /\ fpos = 0

-----------------------------------------------------------------------------
(* Construction and forward pass of a block on its own, and of the network. *)

Inputs(chans, sizes) ==
    { T4(n, c, h, w) : n \in 1..MaxBatch, c \in chans, h \in sizes, w \in sizes }

NetBlank ==
    /\ mods = <<>>
    /\ blk = 1
    /\ classifier = [kind |-> "nullptr"]
    /\ cur = ShapeError
    /\ fpos = 0
    /\ training \in BOOLEAN
    /\ class_num = 0
    /\ NamesIdle
    /\ TrainIdle

DenseInit ==
    /\ pc = "ctor"
    /\ args \in [unit : {"DenseBlock"}, num_convs : 0..MaxConvs,
                 input_channels : 1..MaxChan, growth : 1..MaxGrowth]
    /\ X \in Inputs(1..MaxChan, 1..MaxHW)
    /\ num_channels = 0
    /\ NetBlank

TransInit ==
    /\ pc = "ctor"
    /\ args \in [unit : {"transition_block"}, input_channels : 1..MaxChan,
                 out_channels : 1..MaxChan]
    /\ X \in Inputs(1..MaxChan, 1..(MaxHW + 2))
    /\ num_channels = 0
    /\ NetBlank

ConvChoices == {1, 2, DefaultConvs}

GrowthChoices == (1..MaxGrowth) \cup {DefaultGrowth}

ClassChoices == (1..MaxClasses) \cup {MainClasses}

\* DensNetImpl's member initializers, before the constructor body runs
NetInit ==
    /\ pc = "ctor"
    /\ args \in [unit : {"DensNet"},
                 num_convs_in_dense_blocks : [1..4 -> ConvChoices],
                 growth_rate : GrowthChoices,
                 num_classes : ClassChoices]
    /\ X \in Inputs({3}, {ImgSize})
    /\ num_channels = StemChannels
    /\ NetBlank

\* DenseBlock's constructor
DenseCtor ==
    /\ pc = "ctor"
    /\ args.unit = "DenseBlock"
    /\ mods' = DenseBlock(args.num_convs, args.input_channels, args.growth).mods
    /\ pc' = "built"
    /\ UNCHANGED <<args, num_channels, blk, classifier, training, X, cur, fpos>>
    /\ UNCHANGED <<nameVars, class_num, trainVars>>

\* transition_block's constructor
TransCtor ==
    /\ pc = "ctor"
    /\ args.unit = "transition_block"
    /\ mods' = transition_block(args.input_channels, args.out_channels).mods
    /\ pc' = "built"
    /\ UNCHANGED <<args, num_channels, blk, classifier, training, X, cur, fpos>>
    /\ UNCHANGED <<nameVars, class_num, trainVars>>

\* DensNetImpl's constructor: the stem
NetStem ==
    /\ pc = "ctor"
    /\ args.unit = "DensNet"
    /\ mods' = <<Conv2d(3, 64, 7, 2, 3), BatchNorm2d(64), ReLU, MaxPool2d(3, 2, 1)>>
    /\ blk' = 1
    /\ pc' = "loop"
    /\ UNCHANGED <<args, num_channels, classifier, training, X, cur, fpos>>
    /\ UNCHANGED <<nameVars, class_num, trainVars>>

\* variant: num_channels not halved after a transition block
NetLoop_keeps_width ==
    /\ pc = "loop"
    /\ blk <= Len(args.num_convs_in_dense_blocks)
    /\ LET num_convs == args.num_convs_in_dense_blocks[blk]
           grown     == num_channels + num_convs * args.growth_rate
           isLast    == blk = Len(args.num_convs_in_dense_blocks)
           dense     == DenseBlock(num_convs, num_channels, args.growth_rate)
       IN  /\ mods' = IF isLast
                      THEN Append(mods, dense)
                      ELSE mods \o <<dense, transition_block(grown, HalveTrunc(grown))>>
           /\ num_channels' = grown
    /\ blk' = blk + 1
    /\ UNCHANGED <<pc, args, classifier, training, X, cur, fpos>>
    /\ UNCHANGED <<nameVars, class_num, trainVars>>

\* DensNetImpl's constructor: one iteration of the loop over the dense blocks
NetLoop ==
    /\ pc = "loop"
    /\ blk <= Len(args.num_convs_in_dense_blocks)
    /\ LET num_convs == args.num_convs_in_dense_blocks[blk]
           grown     == num_channels + num_convs * args.growth_rate
           isLast    == blk = Len(args.num_convs_in_dense_blocks)
           dense     == DenseBlock(num_convs, num_channels, args.growth_rate)
       IN  /\ mods' = IF isLast
                      THEN Append(mods, dense)
                      ELSE mods \o <<dense, transition_block(grown, HalveTrunc(grown))>>
           /\ num_channels' = IF isLast THEN grown ELSE HalveTrunc(grown)
    /\ blk' = blk + 1
    /\ UNCHANGED <<pc, args, classifier, training, X, cur, fpos>>
    /\ UNCHANGED <<nameVars, class_num, trainVars>>

\* DensNetImpl's constructor: final batch norm and classifier
NetFinal ==
    /\ pc = "loop"
    /\ blk > Len(args.num_convs_in_dense_blocks)
    /\ mods' = Append(mods, BatchNorm2d(num_channels))
    /\ classifier' = Linear(num_channels, args.num_classes)
    /\ pc' = "built"
    /\ UNCHANGED <<args, num_channels, blk, training, X, cur, fpos>>
    /\ UNCHANGED <<nameVars, class_num, trainVars>>

\* SequentialImpl::forward, entry: an empty Sequential is refused
SeqBegin ==
    /\ pc = "built"
    /\ IF Len(mods) = 0
       THEN /\ pc' = "threw"
            /\ cur' = ShapeError
            /\ fpos' = fpos
       ELSE /\ pc' = "fwd"
            /\ cur' = X
            /\ fpos' = 1
    /\ UNCHANGED <<args, mods, num_channels, blk, classifier, training, X>>
    /\ UNCHANGED <<nameVars, class_num, trainVars>>

\* SequentialImpl::forward, the call of the next module
SeqStep ==
    /\ pc = "fwd"
    /\ fpos <= Len(mods)
    /\ LET y == Forward(mods[fpos], cur, training)
       IN  /\ cur' = y
           /\ IF y.kind = "error"
              THEN /\ pc' = "threw"
                   /\ fpos' = fpos
              ELSE /\ fpos' = fpos + 1
                   /\ pc' = IF fpos < Len(mods) THEN "fwd"
                            ELSE IF args.unit = "DensNet" THEN "head"
                            ELSE "returned"
    /\ UNCHANGED <<args, mods, num_channels, blk, classifier, training, X>>
    /\ UNCHANGED <<nameVars, class_num, trainVars>>

\* DensNetImpl::forward after the features: relu_, adaptive_avg_pool2d, view, classifier
NetHead ==
    /\ pc = "head"
    /\ LET pooled == T4(cur.n, cur.c, 1, 1)
           flat   == T2(cur.n, pooled.c * pooled.h * pooled.w)
           out    == LinearForward(classifier, flat)
       IN  /\ cur' = out
           /\ pc' = IF out.kind = "error" THEN "threw" ELSE "returned"
    /\ UNCHANGED <<args, mods, num_channels, blk, classifier, training, X, fpos>>
    /\ UNCHANGED <<nameVars, class_num, trainVars>>

DenseNext == DenseCtor \/ SeqBegin \/ SeqStep

TransNext == TransCtor \/ SeqBegin \/ SeqStep

NetNext == NetStem \/ NetLoop \/ NetFinal \/ SeqBegin \/ SeqStep \/ NetHead

DenseSpec == DenseInit /\ [][DenseNext]_vars

TransSpec == TransInit /\ [][TransNext]_vars

NetSpec == NetInit /\ [][NetNext]_vars

-----------------------------------------------------------------------------
(* Properties of the blocks and of the network. *)

\* batch norm accepts the input tensor in the mode the module is in
BatchNormAccepts == ~training \/ X.n * X.h * X.w > 1

DenseBuiltAsClaimed ==
    pc # "ctor" =>
        /\ Len(mods) = args.num_convs
        /\ \A j \in 1..Len(mods) :
              /\ mods[j].kind = "conv_block"
              /\ InChannels(mods[j]) = args.input_channels + (j - 1) * args.growth

DenseForwardAsClaimed ==
    /\ pc # "threw"
    /\ pc = "fwd" => cur = T4(X.n, InChannels(mods[fpos]), X.h, X.w)
    /\ pc = "returned" =>
          cur = T4(X.n, args.input_channels + args.num_convs * args.growth, X.h, X.w)

\* C4, as amended: for every num_convs >= 1 the i-th conv_block is built for
\* input_channels + i*growth_rate channels, and on an input of input_channels
\* channels that batch norm accepts every conv_block receives exactly the
\* channel count it was built for, at unchanged batch and spatial size, and the
\* block returns input_channels + num_convs*growth_rate channels without error.
C4_DenseBlockChannels ==
    /\ DenseBuiltAsClaimed
    /\ (args.num_convs >= 1 /\ X.c = args.input_channels /\ BatchNormAccepts)
          => DenseForwardAsClaimed

\* C4, as stated: the same for every num_convs >= 0.  (Stated here for the
\* inputs of input_channels channels that batch norm accepts, so that what
\* refutes it is the block and not the input.)
C4_AsStated ==
    /\ DenseBuiltAsClaimed
    /\ (X.c = args.input_channels /\ BatchNormAccepts) => DenseForwardAsClaimed

C4_Witness ==
    /\ pc = "returned"
    /\ args.num_convs >= 2
    /\ X.c = args.input_channels
    /\ cur.c = args.input_channels + args.num_convs * args.growth

TransForwardAsClaimed ==
    /\ pc # "threw"
    /\ pc = "returned" => cur = T4(X.n, args.out_channels, X.h \div 2, X.w \div 2)

TransNoConcat ==
    pc # "ctor" => \A j \in 1..Len(mods) : mods[j].kind # "conv_block"

\* C5, as amended: for every input [N, input_channels, H, W] with H >= 2 and
\* W >= 2, transition_block's forward returns [N, num_channels, floor(H/2),
\* floor(W/2)] without error, and none of its modules concatenates channels.
C5_TransitionShape ==
    /\ TransNoConcat
    /\ (X.c = args.input_channels /\ X.h >= 2 /\ X.w >= 2) => TransForwardAsClaimed

\* C5, as stated: the same for every input [N, input_channels, H, W].
\* (Stated here for the inputs that batch norm accepts, so that what refutes
\* it is the pooling.)
C5_AsStated ==
    /\ TransNoConcat
    /\ (X.c = args.input_channels /\ BatchNormAccepts) => TransForwardAsClaimed

C5_Witness ==
    /\ pc = "returned"
    /\ X.h = 3
    /\ X.w = 5
    /\ args.out_channels # args.input_channels
    /\ cur = T4(X.n, args.out_channels, 1, 2)

RECURSIVE ChainOK(_, _)
\* every module of ms that is built for a channel count is fed that count
ChainOK(ms, cin) ==
    \/ Len(ms) = 0
    \/ /\ InChannels(Head(ms)) \in {0, cin}
       /\ ChainOK(Tail(ms), OutChannels(Head(ms), cin))

RECURSIVE ChannelsAfter(_)
\* num_channels after k dense blocks, as the claim states the bookkeeping
ChannelsAfter(k) ==
    IF k = 0 THEN 64
    ELSE LET grown == ChannelsAfter(k - 1)
                        + args.num_convs_in_dense_blocks[k] * args.growth_rate
         IN  IF k < 4 THEN grown \div 2 ELSE grown

Kinds(ms) == [j \in 1..Len(ms) |-> ms[j].kind]

FeatureKinds ==
    <<"Conv2d", "BatchNorm2d", "ReLU", "max_pool2d",
      "DenseBlock", "transition_block", "DenseBlock", "transition_block",
      "DenseBlock", "transition_block", "DenseBlock", "BatchNorm2d">>

IsDefaultConfig ==
    /\ args.num_convs_in_dense_blocks = [k \in 1..4 |-> DefaultConvs]
    /\ args.growth_rate = DefaultGrowth

\* C6: construction starts from 64 channels, every dense block adds
\* num_convs*growth_rate to num_channels, every transition block (after all but
\* the last dense block) sets it to the truncated half; every module of the
\* features stack is built for the channel count the module before it emits;
\* the final batch norm and the classifier's input width are the final
\* num_channels, which is 248 for the defaults.
C6_ChannelBookkeeping ==
    pc # "ctor" =>
        /\ ChainOK(mods, 3)
        /\ SeqOutChannels(mods, 3) = num_channels
        /\ pc = "loop" =>
              /\ num_channels = ChannelsAfter(blk - 1)
              /\ Kinds(mods) = SubSeq(FeatureKinds, 1, IF blk = 5 THEN 11 ELSE 2 + 2 * blk)
        /\ pc # "loop" =>
              /\ num_channels = ChannelsAfter(4)
              /\ Kinds(mods) = FeatureKinds
              /\ mods[Len(mods)] = BatchNorm2d(num_channels)
              /\ classifier = Linear(num_channels, args.num_classes)
              /\ IsDefaultConfig => num_channels = 248

C6_Witness ==
    /\ pc = "built"
    /\ IsDefaultConfig
    /\ num_channels = 248
    /\ classifier.fin = 248

\* C1: on an input [N, 3, 224, 224] the forward pass never raises an error,
\* the stem leaves 56x56 maps of 64 channels, the features end in 7x7 maps of
\* num_channels channels, and the result has shape [N, num_classes].
C1_OutputShape ==
    /\ pc # "threw"
    /\ (pc = "fwd" /\ fpos = 5) => cur = T4(X.n, 64, 56, 56)
    /\ pc = "head" => cur = T4(X.n, num_channels, 7, 7)
    /\ pc = "returned" => cur = T2(X.n, args.num_classes)

C1_Witness ==
    /\ pc = "returned"
    /\ IsDefaultConfig
    /\ args.num_classes = 17
    /\ X = T4(1, 3, 224, 224)
    /\ cur = T2(1, 17)

-----------------------------------------------------------------------------
(* Set_Class_Names(path, class_num).  The file is what getline delivers:   *)
(* its lines without their terminators, or nothing when it cannot be       *)
(* opened.  An exception that leaves main uncaught ends the process by     *)
(* std::terminate, that is by abort and not by an exit status.             *)

LineChoices == {"", "ab", "abc", "rose", "iris"}

RECURSIVE SeqsUpTo(_, _)
SeqsUpTo(S, n) ==
    IF n = 0 THEN {<<>>}
    ELSE LET shorter == SeqsUpTo(S, n - 1)
         IN  shorter \cup { Append(q, e) : q \in shorter, e \in S }

Files ==
    {[ok |-> FALSE]} \cup {[ok |-> TRUE, lines |-> l] : l \in SeqsUpTo(LineChoices, MaxLines)}

NamesInit ==
    /\ pc = "names_open"
    /\ file \in Files
    /\ class_num \in 0..MaxClasses
    /\ class_names = [k \in 1..class_num |-> ""]
    /\ i = 0
    /\ rd = 0
    /\ outcome = "none"
    /\ NetIdle
    /\ TrainIdle

\* variant: every non-empty line taken for a class name
IsClassName_nonempty(line) == Len(line) > 0

\* the test on a line read: class_name.length() > 2
IsClassName(line) == Len(line) > 2

\* std::ifstream ifs(path); if (!ifs.fail()) ... else exit(1)
NamesOpen ==
    /\ pc = "names_open"
    /\ IF file.ok
       THEN /\ pc' = "names_read"
            /\ UNCHANGED <<outcome, exit_code>>
       ELSE /\ pc' = "names_done"
            /\ outcome' = "exit"
            /\ exit_code' = <<1>>
    /\ UNCHANGED <<file, class_names, i, rd, class_num, netVars>>
    /\ UNCHANGED <<loaders, epoch, lpos, mode, weights, opt_steps, iters, trace, vtally,
                   counter, match, class_counter, class_match, last, class_accuracy,
                   accuracy>>

\* one iteration of while (getline(ifs, class_name)); class_names.at(i)
\* throws std::out_of_range when i is not below class_names.size()
NamesGetline ==
    /\ pc = "names_read"
    /\ rd < Len(file.lines)
    /\ rd' = rd + 1
    /\ LET class_name == file.lines[rd + 1]
       IN  IF ~IsClassName(class_name)
           THEN UNCHANGED <<pc, class_names, i, outcome>>
           ELSE IF i >= Len(class_names)
           THEN /\ pc' = "names_done"
                /\ outcome' = "abort"
                /\ UNCHANGED <<class_names, i>>
           ELSE /\ class_names' = [class_names EXCEPT ![i + 1] = class_name]
                /\ i' = i + 1
                /\ UNCHANGED <<pc, outcome>>
    /\ UNCHANGED <<file, class_num, netVars, trainVars>>

\* getline fails at the end of the file; ifs.close(); the count check; return
NamesEof ==
    /\ pc = "names_read"
    /\ rd = Len(file.lines)
    /\ pc' = "names_done"
    /\ IF i # class_num
       THEN /\ outcome' = "exit"
            /\ exit_code' = <<1>>
       ELSE /\ outcome' = "returned"
            /\ UNCHANGED exit_code
    /\ UNCHANGED <<file, class_names, i, rd, class_num, netVars>>
    /\ UNCHANGED <<loaders, epoch, lpos, mode, weights, opt_steps, iters, trace, vtally,
                   counter, match, class_counter, class_match, last, class_accuracy,
                   accuracy>>

NamesNext == NamesOpen \/ NamesGetline \/ NamesEof

NamesSpec == NamesInit /\ [][NamesNext]_vars

\* the lines of more than two characters, in file order
NonTrivial(lines) == SelectSeq(lines, LAMBDA l : Len(l) > 2)

\* C2, as stated: a call on a file that cannot be opened, or whose count of
\* non-trivial lines differs from class_num, ends by exit with status 1.
\* (Stated here for class_num >= 1 only, the case main uses.)
C2_FatalExit ==
    (/\ pc = "names_done"
     /\ class_num >= 1
     /\ (~file.ok \/ Len(NonTrivial(file.lines)) # class_num))
        => (outcome = "exit" /\ exit_code = <<1>>)

\* C3: on a readable file with exactly class_num non-trivial lines the call
\* returns, and what it returns has length class_num and holds the non-trivial
\* lines in file order; while reading, the first i entries are the non-trivial
\* lines read so far.
C3_NamesInFileOrder ==
    (file.ok /\ Len(NonTrivial(file.lines)) = class_num) =>
        /\ outcome \in {"none", "returned"}
        /\ Len(class_names) = class_num
        /\ pc = "names_read" =>
              /\ i = Len(NonTrivial(SubSeq(file.lines, 1, rd)))
              /\ SubSeq(class_names, 1, i) = NonTrivial(SubSeq(file.lines, 1, rd))
        /\ pc = "names_done" =>
              /\ outcome = "returned"
              /\ class_names = NonTrivial(file.lines)

C3_Witness ==
    /\ outcome = "returned"
    /\ class_num = 2
    /\ Len(file.lines) = 3
    /\ class_names = <<"rose", "abc">>

-----------------------------------------------------------------------------
(* main, from the epoch loop to its return.  A loader is modelled by the   *)
(* number of mini-batches it delivers per pass; the validation and test    *)
(* loaders have batch size 1, so a mini-batch there is one sample.         *)

\* DataLoader::operator(): true while the pass has mini-batches left,
\* false once, after which the next call starts a new pass
LoaderDelivers(n, pos) == pos < n

\* variant: a quotient guarded against a zero divisor
FloatDiv_guarded(a, b, nan) ==
    IF b = 0 THEN [kind |-> "ratio", num |-> 0, den |-> 1]
    ELSE [kind |-> "ratio", num |-> a, den |-> b]

\* (float)a / (float)b; a zero divisor yields no number but a NaN, whose
\* sign depends on the build (an infinity for a non-zero dividend)
FloatDiv(a, b, nan) ==
    IF b # 0 THEN [kind |-> "ratio", num |-> a, den |-> b]
    ELSE IF a = 0 THEN nan
    ELSE [kind |-> "inf"]

NaNs == {[kind |-> "nan", sign |-> "+"], [kind |-> "nan", sign |-> "-"]}

Classes == 0..(class_num - 1)

\* main at the head of the epoch loop, net constructed in training mode
TrainInit ==
    /\ pc = "epoch_head"
    /\ class_num \in 1..MaxClasses
    /\ loaders \in [train : 0..MaxBatches, valid : 0..MaxBatches, test : 0..MaxTest]
    /\ epoch = 1
    /\ lpos = 0
    /\ mode = "train"
    /\ weights = 0
    /\ opt_steps = 0
    /\ iters = 0
    /\ trace = <<>>
    /\ vtally = [total_counter |-> 0, total_match |-> 0]
    /\ counter = 0
    /\ match = 0
    /\ class_counter = <<>>
    /\ class_match = <<>>
    /\ last = [seen |-> FALSE]
    /\ class_accuracy = <<>>
    /\ accuracy = [kind |-> "unset"]
    /\ exit_code = Running
    /\ NetIdle
    /\ NamesIdle

\* the loop test passes: net->train(), first = true, loss_sum = 0
EpochBegin ==
    /\ pc = "epoch_head"
    /\ epoch <= total_epoch
    /\ mode' = "train"
    /\ lpos' = 0
    /\ pc' = "train"
    /\ UNCHANGED <<loaders, epoch, weights, opt_steps, iters, trace, vtally, counter,
                   match, class_counter, class_match, last, class_accuracy, accuracy,
                   exit_code>>
    /\ UNCHANGED <<netVars, nameVars, class_num>>

\* one training mini-batch: forward, loss, zero_grad, backward, optimizer.step
TrainBatch ==
    /\ pc = "train"
    /\ LoaderDelivers(loaders.train, lpos)
    /\ lpos' = lpos + 1
    /\ iters' = iters + 1
    /\ opt_steps' = opt_steps + 1
    /\ weights' = weights + 1
    /\ UNCHANGED <<pc, loaders, epoch, mode, trace, vtally, counter, match,
                   class_counter, class_match, last, class_accuracy, accuracy, exit_code>>
    /\ UNCHANGED <<netVars, nameVars, class_num>>

\* variant: validation entered after every epoch
TrainEnd_validates_each_epoch ==
    /\ pc = "train"
    /\ ~LoaderDelivers(loaders.train, lpos)
    /\ trace' = Append(trace, <<"Train", epoch, lpos>>)
    /\ pc' = "valid"
    /\ mode' = "eval"
    /\ lpos' = 0
    /\ vtally' = [total_counter |-> 0, total_match |-> 0]
    /\ UNCHANGED epoch
    /\ UNCHANGED <<loaders, weights, opt_steps, iters, counter, match, class_counter,
                   class_match, last, class_accuracy, accuracy, exit_code>>
    /\ UNCHANGED <<netVars, nameVars, class_num>>

\* the training loader is exhausted: the epoch's average loss, then either
\* the validation pass is entered (valid && epoch % 5 == 0) or the epoch ends
TrainEnd ==
    /\ pc = "train"
    /\ ~LoaderDelivers(loaders.train, lpos)
    /\ trace' = Append(trace, <<"Train", epoch, lpos>>)
    /\ IF epoch % 5 = 0
       THEN /\ pc' = "valid"
            /\ mode' = "eval"
            /\ lpos' = 0
            /\ vtally' = [total_counter |-> 0, total_match |-> 0]
            /\ UNCHANGED epoch
       ELSE /\ pc' = "epoch_head"
            /\ epoch' = epoch + 1
            /\ UNCHANGED <<mode, lpos, vtally>>
    /\ UNCHANGED <<loaders, weights, opt_steps, iters, counter, match, class_counter,
                   class_match, last, class_accuracy, accuracy, exit_code>>
    /\ UNCHANGED <<netVars, nameVars, class_num>>

\* variant: a validation step that also steps the optimizer
ValidBatch_steps ==
    /\ pc = "valid"
    /\ LoaderDelivers(loaders.valid, lpos)
    /\ lpos' = lpos + 1
    /\ opt_steps' = opt_steps + 1
    /\ weights' = weights + 1
    /\ \E answer \in Classes, response \in Classes :
          vtally' = [total_counter |-> vtally.total_counter + 1,
                     total_match   |-> vtally.total_match
                                          + (IF response = answer THEN 1 ELSE 0)]
    /\ UNCHANGED <<pc, loaders, epoch, mode, iters, trace, counter, match,
                   class_counter, class_match, last, class_accuracy, accuracy, exit_code>>
    /\ UNCHANGED <<netVars, nameVars, class_num>>

\* one validation mini-batch (one sample): forward, loss, arg-max against label
ValidBatch ==
    /\ pc = "valid"
    /\ LoaderDelivers(loaders.valid, lpos)
    /\ lpos' = lpos + 1
    /\ \E answer \in Classes, response \in Classes :
          vtally' = [total_counter |-> vtally.total_counter + 1,
                     total_match   |-> vtally.total_match
                                          + (IF response = answer THEN 1 ELSE 0)]
    /\ UNCHANGED <<pc, loaders, epoch, mode, weights, opt_steps, iters, trace, counter,
                   match, class_counter, class_match, last, class_accuracy, accuracy,
                   exit_code>>
    /\ UNCHANGED <<netVars, nameVars, class_num>>

\* the validation loader is exhausted: averages, accuracy, next epoch
ValidEnd ==
    /\ pc = "valid"
    /\ ~LoaderDelivers(loaders.valid, lpos)
    /\ trace' = Append(trace, <<"Validate", epoch, lpos>>)
    /\ epoch' = epoch + 1
    /\ pc' = "epoch_head"
    /\ UNCHANGED <<loaders, lpos, mode, weights, opt_steps, iters, vtally, counter,
                   match, class_counter, class_match, last, class_accuracy, accuracy,
                   exit_code>>
    /\ UNCHANGED <<netVars, nameVars, class_num>>

\* the epoch loop is left; if (test): the tallies are zeroed, net->eval()
TestBegin ==
    /\ pc = "epoch_head"
    /\ epoch > total_epoch
    /\ counter' = 0
    /\ match' = 0
    /\ class_match' = [c \in Classes |-> 0]
    /\ class_counter' = [c \in Classes |-> 0]
    /\ class_accuracy' = [c \in Classes |-> [kind |-> "ratio", num |-> 0, den |-> 1]]
    /\ mode' = "eval"
    /\ lpos' = 0
    /\ pc' = "test"
    /\ UNCHANGED <<loaders, epoch, weights, opt_steps, iters, trace, vtally, last,
                   accuracy, exit_code>>
    /\ UNCHANGED <<netVars, nameVars, class_num>>

\* variant: every sample tallied as a match of the predicted class
TestSample_counts_every_match ==
    /\ pc = "test"
    /\ LoaderDelivers(loaders.test, lpos)
    /\ lpos' = lpos + 1
    /\ \E answer \in Classes, response \in Classes :
          /\ last' = [seen |-> TRUE, answer |-> answer, response |-> response]
          /\ counter' = counter + 1
          /\ class_counter' = [class_counter EXCEPT ![answer] = @ + 1]
          /\ class_match' = [class_match EXCEPT ![response] = @ + 1]
          /\ match' = match + 1
    /\ UNCHANGED <<pc, loaders, epoch, mode, weights, opt_steps, iters, trace, vtally,
                   class_accuracy, accuracy, exit_code>>
    /\ UNCHANGED <<netVars, nameVars, class_num>>

\* one test sample: forward, loss, arg-max against label, the tallies
TestSample ==
    /\ pc = "test"
    /\ LoaderDelivers(loaders.test, lpos)
    /\ lpos' = lpos + 1
    /\ \E answer \in Classes, response \in Classes :
          /\ last' = [seen |-> TRUE, answer |-> answer, response |-> response]
          /\ counter' = counter + 1
          /\ class_counter' = [class_counter EXCEPT ![answer] = @ + 1]
          /\ IF response = answer
             THEN /\ class_match' = [class_match EXCEPT ![answer] = @ + 1]
                  /\ match' = match + 1
             ELSE UNCHANGED <<class_match, match>>
    /\ UNCHANGED <<pc, loaders, epoch, mode, weights, opt_steps, iters, trace, vtally,
                   class_accuracy, accuracy, exit_code>>
    /\ UNCHANGED <<netVars, nameVars, class_num>>

\* the test loader is exhausted: per-class accuracies, overall accuracy
Report ==
    /\ pc = "test"
    /\ ~LoaderDelivers(loaders.test, lpos)
    /\ trace' = Append(trace, <<"Test", total_epoch, lpos>>)
    /\ \E nan \in NaNs :
          /\ class_accuracy' =
                [c \in Classes |-> FloatDiv(class_match[c], class_counter[c], nan)]
          /\ accuracy' = FloatDiv(match, counter, nan)
    /\ pc' = "plot"
    /\ UNCHANGED <<loaders, epoch, lpos, mode, weights, opt_steps, iters, vtally,
                   counter, match, class_counter, class_match, last, exit_code>>
    /\ UNCHANGED <<netVars, nameVars, class_num>>

\* the plot, "Done!", return 0
Finish ==
    /\ pc = "plot"
    /\ pc' = "done"
    /\ exit_code' = <<0>>
    /\ UNCHANGED <<loaders, epoch, lpos, mode, weights, opt_steps, iters, trace, vtally,
                   counter, match, class_counter, class_match, last, class_accuracy,
                   accuracy>>
    /\ UNCHANGED <<netVars, nameVars, class_num>>

TrainNext ==
    \/ EpochBegin
    \/ TrainBatch
    \/ TrainEnd
    \/ ValidBatch
    \/ ValidEnd
    \/ TestBegin
    \/ TestSample
    \/ Report
    \/ Finish

TrainSpec == TrainInit /\ [][TrainNext]_vars

\* main is one sequential thread: a step that can be taken is taken
TrainFairSpec == TrainSpec /\ WF_vars(TrainNext)

-----------------------------------------------------------------------------
(* Properties of the training loop. *)

RECURSIVE PassesThrough(_)
\* the passes of epochs 1..e, as the claim orders them
PassesThrough(e) ==
    IF e = 0 THEN <<>>
    ELSE PassesThrough(e - 1)
            \o <<<<"Train", e, loaders.train>>>>
            \o (IF e % 5 = 0 THEN <<<<"Validate", e, loaders.valid>>>> ELSE <<>>)

ExpectedTrace == PassesThrough(20) \o <<<<"Test", 20, loaders.test>>>>

IsPrefix(p, q) == Len(p) <= Len(q) /\ p = SubSeq(q, 1, Len(p))

\* C7: the passes a run completes are, in order, Train of epochs 1..20, each
\* over all mini-batches of the training loader, with a Validate pass right
\* after the Train pass of exactly the epochs divisible by 5, and one Test
\* pass after the last of them; every run reaches its end and exits with 0.
C7_PassOrder ==
    /\ [](IsPrefix(trace, ExpectedTrace))
    /\ []((pc \in {"plot", "done"}) => (trace = ExpectedTrace))
    /\ []((pc = "done") => (exit_code = <<0>> /\ iters = 20 * loaders.train))
    /\ <>(pc = "done" /\ exit_code = <<0>>)

C7_Witness ==
    /\ pc = "done"
    /\ Len(trace) = 25
    /\ loaders.train = 2
    /\ loaders.valid > 0
    /\ loaders.test > 0

\* C8: the weights change only in a training mini-batch, in training mode,
\* by exactly one optimizer step per mini-batch consumed; validation and test
\* steps leave them as they are; at the end of a run the optimizer has stepped
\* total_epoch times the number of training mini-batches per epoch.
C8_WeightsOnlyInTrain ==
    /\ [][(weights' # weights \/ opt_steps' # opt_steps \/ iters' # iters) =>
            /\ pc = "train"
            /\ mode = "train"
            /\ weights' = weights + 1
            /\ opt_steps' = opt_steps + 1
            /\ iters' = iters + 1]_vars
    /\ [][(pc \in {"valid", "test"}) => (weights' = weights)]_vars
    /\ []((pc \in {"valid", "test"}) => (mode = "eval"))
    /\ [](weights = opt_steps /\ opt_steps = iters)
    /\ []((pc = "done") => (opt_steps = 20 * loaders.train))

C8_Witness ==
    /\ pc = "done"
    /\ loaders.train = 2
    /\ opt_steps = 40
    /\ loaders.valid = 2
    /\ loaders.test = 2

ReportedAsClaimed ==
    /\ \A c \in Classes :
          IF class_counter[c] = 0
          THEN class_accuracy[c] \in NaNs
          ELSE class_accuracy[c]
                  = [kind |-> "ratio", num |-> class_match[c], den |-> class_counter[c]]
    /\ IF counter = 0
       THEN accuracy \in NaNs
       ELSE accuracy = [kind |-> "ratio", num |-> match, den |-> counter]

\* C9: the report gives class_match[c]/class_counter[c] for every class; for
\* a class without test samples the quotient is taken all the same and is not
\* a number; and a run whose test pass ends with such a class still goes on to
\* the overall accuracy and exits with 0.
C9_UnguardedDivision ==
    /\ []((pc \in {"plot", "done"}) => ReportedAsClaimed)
    /\ (pc = "test" /\ lpos = loaders.test /\ \E c \in Classes : class_counter[c] = 0)
          ~> (pc = "done" /\ exit_code = <<0>> /\ accuracy.kind # "unset")

C9_Witness ==
    /\ pc = "done"
    /\ exit_code = <<0>>
    /\ \E c \in Classes : class_counter[c] = 0 /\ class_accuracy[c] \in NaNs
    /\ \E c \in Classes : class_counter[c] > 0 /\ class_accuracy[c].kind = "ratio"

RECURSIVE SumOver(_, _)
SumOver(f, S) ==
    IF S = {} THEN 0
    ELSE LET c == CHOOSE x \in S : TRUE IN f[c] + SumOver(f, S \ {c})

TalliesAgree ==
    /\ counter = lpos
    /\ counter = SumOver(class_counter, Classes)
    /\ match = SumOver(class_match, Classes)
    /\ \A c \in Classes : class_match[c] <= class_counter[c]
    /\ match <= counter

\* C10: with every test label in 0..class_num-1, after any number of test
\* samples counter is the number of samples processed and the sum of
\* class_counter, match is the sum of class_match, class_match[c] <=
\* class_counter[c] for every class and match <= counter; a sample adds one to
\* counter and to class_counter[label], and one to match and to
\* class_match[label] exactly when the arg-max equals the label.
C10_TestTallies ==
    /\ []((pc \in {"test", "plot", "done"}) => TalliesAgree)
    /\ [][(pc = "test" /\ pc' = "test") =>
            LET answer == last'.answer
                hit    == IF last'.response = answer THEN 1 ELSE 0
            IN  /\ counter' = counter + 1
                /\ class_counter' = [class_counter EXCEPT ![answer] = @ + 1]
                /\ class_match' = [class_match EXCEPT ![answer] = @ + hit]
                /\ match' = match + hit]_vars

C10_Witness ==
    /\ pc = "test"
    /\ counter = 2
    /\ match = 1
    /\ last.seen
    /\ last.response # last.answer

=============================================================================
